---- MODULE Spec2Model ----
(***************************************************************************)
(* A model of container-source-policy's reference resolution engine:       *)
(*   - pin.GeneratePolicy / pin.WritePolicy (the policy assembler),        *)
(*   - registry.IsNotFoundOrAuthError (the hardened-mirror fallback test), *)
(*   - dhi.CanMapToDHI / dhi.MapToDHI (the hardened-mirror rewrite),       *)
(*   - the hardened-mirror image resolution and the HTTP checksum chain.   *)
(* Go strings the code searches by substring are tuples of one-character   *)
(* strings; image references are tuples of tokens (name components and the *)
(* separators "/", ":" and "@").                                          *)
(***************************************************************************)
EXTENDS Integers, Sequences, FiniteSets, TLC

VARIABLES
    \* ---- registry.IsNotFoundOrAuthError applied to one error
    errIn,      \* the error handed to IsNotFoundOrAuthError
    errOut,     \* what it returned
    errPc       \* "call" before the call, "done" after it

VARIABLES
    \* ---- dhi.CanMapToDHI / dhi.MapToDHI applied to one reference
    refStr,     \* the reference as written (tokens)
    refNamed,   \* reference.ParseNormalizedNamed(refStr)
    canMapOut,  \* what CanMapToDHI(refNamed) returned
    mapOut,     \* what MapToDHI(refNamed) returned: [ref, err]
    remapOut,   \* what MapToDHI returned for the reference in mapOut
    dhiPc       \* "start", "checked", "mapped", "remapped"

VARIABLES
    \* ---- pin.GeneratePolicy and pin.WritePolicy, run twice over the same inputs
    dockerfiles, \* opts.Dockerfiles, each with the file's contents
    registry,    \* upstream state: what the registry answers for each reference
    pc,          \* "start", "files", "refs", "done", "written"
    fileIdx,     \* position of the loop over opts.Dockerfiles
    refs,        \* the references dockerfile.ParseFile returned for the file
    refIdx,      \* position of the loop over refs
    seen,        \* the seen map (the Originals mapped to true)
    rules,       \* pol.Rules
    ret,         \* what GeneratePolicy returned: [pol, err]
    calls,       \* the client.GetDigest calls of this run, in order
    out,         \* what WritePolicy wrote
    run,         \* 1 or 2: which run of the program this is
    doc1         \* the document the first run wrote

VARIABLES
    \* ---- image resolution with the hardened mirror preferred, one reference
    hRef,        \* the reference: [Original, Ref]
    hPreferDHI,  \* whether hardening is enabled
    hDhiAnswer,  \* what dhi.io answers for the rewritten reference
    hOrigAnswer, \* what the original registry answers
    hPc,         \* "start", "dhi", "original", "done"
    hCalls,      \* the references GetDigest was asked for, in order
    hRules,      \* the rules emitted
    hErr         \* the error the resolution ended with, NilErr if none

VARIABLES
    \* ---- checksum of one HTTP source
    url,         \* the URL resolved: [host, path, api]
    ms,          \* the server behind it: [kind, files, requests]
    httpPc,      \* "etag", "release", "s3", "fallback", "vary", "done"
    checksum,    \* the checksum decided, <<>> if none yet
    decidedBy,   \* the strategy that decided it, "none" if none yet
    captured,    \* the Vary header read by the probe
    httpErr      \* the error the resolution ended with, NoErr if none

VARIABLES
    \* ---- commit of one Git source
    gitRef,      \* the ref after '#', as text
    gitRemote,   \* the remote: [up, heads, tags]
    gitPc,       \* "start", "listed", "done"
    gitListing,  \* the lines git ls-remote printed: <<object id, ref name>>
    gitOut,      \* the commit id returned, <<>> if none
    gitErr,      \* the error returned, NoErr if none
    gitCalls     \* how many times the remote was listed

VARIABLES
    \* ---- one call of Client.CheckAuth
    authRegistry, \* the registry argument, as tokens
    authOutcome,  \* what NewImageSource returns for the probe: NilErr or an error
    authRet,      \* the error CheckAuth returned, NoErr for nil
    authPc        \* "call", "done"

errVars == <<errIn, errOut, errPc>>
authVars == <<authRegistry, authOutcome, authRet, authPc>>
gitVars == <<gitRef, gitRemote, gitPc, gitListing, gitOut, gitErr, gitCalls>>
httpVars == <<url, ms, httpPc, checksum, decidedBy, captured, httpErr>>
hardenVars == <<hRef, hPreferDHI, hDhiAnswer, hOrigAnswer, hPc, hCalls, hRules, hErr>>
pinVars == <<dockerfiles, registry, pc, fileIdx, refs, refIdx, seen, rules, ret,
             calls, out, run, doc1>>
dhiVars == <<refStr, refNamed, canMapOut, mapOut, remapOut, dhiPc>>
vars == <<pinVars, errVars, dhiVars, hardenVars, httpVars, gitVars, authVars>>

----------------------------------------------------------------------------
(* Go values.  An error is nil or carries its message text; a nil          *)
(* reference.Named is NilRef.                                              *)

NilErr == [isNil |-> TRUE, msg |-> <<>>]
Err(text) == [isNil |-> FALSE, msg |-> text]

NilRef == [domain |-> <<>>, path |-> <<>>, tag |-> "", digest |-> ""]
NoRefErr == "nil"

\* errors of package pin: an operation, what it was applied to, and the cause
NoErr == [op |-> "nil", arg |-> <<>>, cause |-> "nil"]
Errorf(op, arg, cause) == [op |-> op, arg |-> arg, cause |-> cause]

\* a nil *policy.Policy, and a policy with its rules
NilPolicy == [isNil |-> TRUE, rules |-> <<>>]
Policy(rs) == [isNil |-> FALSE, rules |-> rs]

----------------------------------------------------------------------------
(* Each specification below exercises one part of the program; the         *)
(* variables of the other parts stay at these values.                      *)

ErrIdle ==
    /\ errIn = NilErr
    /\ errOut = FALSE
    /\ errPc = "idle"

DhiIdle ==
    /\ refStr = <<>>
    /\ refNamed = NilRef
    /\ canMapOut = FALSE
    /\ mapOut = [ref |-> NilRef, err |-> NoRefErr]
    /\ remapOut = [ref |-> NilRef, err |-> NoRefErr]
    /\ dhiPc = "idle"

PinIdle ==
    /\ dockerfiles = <<>>
    /\ registry = <<>>
    /\ pc = "idle"
    /\ fileIdx = 0
    /\ refs = <<>>
    /\ refIdx = 0
    /\ seen = {}
    /\ rules = <<>>
    /\ ret = [pol |-> NilPolicy, err |-> NoErr]
    /\ calls = <<>>
    /\ out = <<>>
    /\ run = 0
    /\ doc1 = <<>>

HardenIdle ==
    /\ hRef = [Original |-> <<>>, Ref |-> NilRef]
    /\ hPreferDHI = FALSE
    /\ hDhiAnswer = [stage |-> "served", cause |-> <<>>, manifest |-> "mA"]
    /\ hOrigAnswer = [stage |-> "served", cause |-> <<>>, manifest |-> "mA"]
    /\ hPc = "idle"
    /\ hCalls = <<>>
    /\ hRules = <<>>
    /\ hErr = NilErr

HttpIdle ==
    /\ url = [host |-> "other", path |-> "/f", api |-> "/api"]
    /\ ms = [kind |-> "mock", files |-> <<>>, requests |-> <<>>]
    /\ httpPc = "idle"
    /\ checksum = <<>>
    /\ decidedBy = "none"
    /\ captured = <<>>
    /\ httpErr = NoErr

GitIdle ==
    /\ gitRef = <<>>
    /\ gitRemote = [up |-> TRUE, heads |-> <<>>, tags |-> <<>>]
    /\ gitPc = "idle"
    /\ gitListing = {}
    /\ gitOut = <<>>
    /\ gitErr = NoErr
    /\ gitCalls = 0

AuthIdle ==
    /\ authRegistry = <<>>
    /\ authOutcome = NilErr
    /\ authRet = NoErr
    /\ authPc = "idle"
\* @@IDLES@@

----------------------------------------------------------------------------
(* Go strings as tuples of characters.                                     *)

UpperChars == <<"A", "B", "C", "D", "E", "F", "G", "H", "I", "J", "K", "L", "M", "N", "O", "P", "Q", "R", "S", "T", "U", "V", "W", "X", "Y", "Z">>
LowerChars == <<"a", "b", "c", "d", "e", "f", "g", "h", "i", "j", "k", "l", "m", "n", "o", "p", "q", "r", "s", "t", "u", "v", "w", "x", "y", "z">>

\* unicode.ToLower on one character
LowerChar(c) ==
    IF \E i \in 1..Len(UpperChars) : UpperChars[i] = c
    THEN LowerChars[CHOOSE i \in 1..Len(UpperChars) : UpperChars[i] = c]
    ELSE c

\* strings.ToLower
ToLower(s) == [i \in 1..Len(s) |-> LowerChar(s[i])]

\* strings.Contains
Contains(s, sub) ==
    \E i \in 0..(Len(s) - Len(sub)) : SubSeq(s, i + 1, i + Len(sub)) = sub

----------------------------------------------------------------------------
(* registry.IsNotFoundOrAuthError.                                         *)


\* registry.IsNotFoundOrAuthError without the strings.ToLower call
IsNotFoundOrAuthError_CaseSensitive(err) ==
    IF err.isNil THEN FALSE
    ELSE LET errStr == err.msg IN
         IF \/ Contains(errStr, <<"4", "0", "1">>)
            \/ Contains(errStr, <<"4", "0", "3">>)
            \/ Contains(errStr, <<"4", "0", "4">>)
         THEN TRUE
         ELSE IF \/ Contains(errStr, <<"m", "a", "n", "i", "f", "e", "s", "t", " ", "u", "n", "k", "n", "o", "w", "n">>)
                 \/ Contains(errStr, <<"n", "o", "t", " ", "f", "o", "u", "n", "d">>)
                 \/ Contains(errStr, <<"u", "n", "a", "u", "t", "h", "o", "r", "i", "z", "e", "d">>)
                 \/ Contains(errStr, <<"a", "u", "t", "h", "e", "n", "t", "i", "c", "a", "t", "i", "o", "n", " ", "r", "e", "q", "u", "i", "r", "e", "d">>)
                 \/ Contains(errStr, <<"d", "e", "n", "i", "e", "d">>)
                 \/ Contains(errStr, <<"d", "o", "e", "s", " ", "n", "o", "t", " ", "e", "x", "i", "s", "t">>)
              THEN TRUE
              ELSE FALSE

\* registry.IsNotFoundOrAuthError
IsNotFoundOrAuthError(err) ==
    IF err.isNil THEN FALSE
    ELSE LET errStr == ToLower(err.msg) IN
         IF \/ Contains(errStr, <<"4", "0", "1">>)
            \/ Contains(errStr, <<"4", "0", "3">>)
            \/ Contains(errStr, <<"4", "0", "4">>)
         THEN TRUE
         ELSE IF \/ Contains(errStr, <<"m", "a", "n", "i", "f", "e", "s", "t", " ", "u", "n", "k", "n", "o", "w", "n">>)
                 \/ Contains(errStr, <<"n", "o", "t", " ", "f", "o", "u", "n", "d">>)
                 \/ Contains(errStr, <<"u", "n", "a", "u", "t", "h", "o", "r", "i", "z", "e", "d">>)
                 \/ Contains(errStr, <<"a", "u", "t", "h", "e", "n", "t", "i", "c", "a", "t", "i", "o", "n", " ", "r", "e", "q", "u", "i", "r", "e", "d">>)
                 \/ Contains(errStr, <<"d", "e", "n", "i", "e", "d">>)
                 \/ Contains(errStr, <<"d", "o", "e", "s", " ", "n", "o", "t", " ", "e", "x", "i", "s", "t">>)
              THEN TRUE
              ELSE FALSE

----------------------------------------------------------------------------
(* The error texts IsNotFoundOrAuthError is applied to: what a registry    *)
(* transport reports, with and without context around the marker.          *)

ErrPrefixes ==
    { <<>>,
      <<"r", "e", "a", "d", "i", "n", "g", " ", "m", "a", "n", "i", "f", "e", "s", "t", " ", "1", ".", "2", "3", " ", "i", "n", " ", "d", "h", "i", ".", "i", "o", "/", "g", "o", "l", "a", "n", "g", ":", " ">>,
      <<"E", "r", "r", "o", "r", ":", " ">> }

ErrCores ==
    { <<"4", "0", "1">>, <<"4", "0", "3">>, <<"4", "0", "4">>, <<"5", "0", "0">>, <<"S", "t", "a", "t", "u", "s", "C", "o", "d", "e", ":", " ", "4", "0", "4", ",", " ">>,
      <<"m", "a", "n", "i", "f", "e", "s", "t", " ", "u", "n", "k", "n", "o", "w", "n">>, <<"M", "a", "n", "i", "f", "e", "s", "t", " ", "U", "n", "k", "n", "o", "w", "n">>, <<"M", "A", "N", "I", "F", "E", "S", "T", "_", "U", "N", "K", "N", "O", "W", "N">>,
      <<"n", "a", "m", "e", " ", "u", "n", "k", "n", "o", "w", "n">>, <<"N", "A", "M", "E", " ", "U", "N", "K", "N", "O", "W", "N">>, <<"u", "n", "k", "n", "o", "w", "n", " ", "n", "a", "m", "e">>,
      <<"n", "o", "t", " ", "f", "o", "u", "n", "d">>, <<"N", "o", "t", " ", "F", "o", "u", "n", "d">>,
      <<"u", "n", "a", "u", "t", "h", "o", "r", "i", "z", "e", "d">>, <<"U", "N", "A", "U", "T", "H", "O", "R", "I", "Z", "E", "D">>, <<"a", "u", "t", "h", "e", "n", "t", "i", "c", "a", "t", "i", "o", "n", " ", "r", "e", "q", "u", "i", "r", "e", "d">>,
      <<"d", "e", "n", "i", "e", "d">>, <<"r", "e", "q", "u", "e", "s", "t", "e", "d", " ", "a", "c", "c", "e", "s", "s", " ", "t", "o", " ", "t", "h", "e", " ", "r", "e", "s", "o", "u", "r", "c", "e", " ", "i", "s", " ", "d", "e", "n", "i", "e", "d">>,
      <<"d", "o", "e", "s", " ", "n", "o", "t", " ", "e", "x", "i", "s", "t">>, <<"D", "o", "e", "s", " ", "N", "o", "t", " ", "E", "x", "i", "s", "t">>,
      <<"c", "o", "n", "n", "e", "c", "t", "i", "o", "n", " ", "r", "e", "f", "u", "s", "e", "d">>, <<"i", "/", "o", " ", "t", "i", "m", "e", "o", "u", "t">>, <<"c", "o", "n", "t", "e", "x", "t", " ", "c", "a", "n", "c", "e", "l", "e", "d">>, <<>> }

ErrSuffixes == { <<>>, <<" ", "(", "g", "i", "v", "i", "n", "g", " ", "u", "p", ")">> }

ErrTexts == { p \o c \o s : p \in ErrPrefixes, c \in ErrCores, s \in ErrSuffixes }

ErrInputs == {NilErr} \cup { Err(t) : t \in ErrTexts }

ErrInit ==
    /\ errIn \in ErrInputs
    /\ errOut = FALSE
    /\ errPc = "call"
    /\ PinIdle /\ DhiIdle /\ HardenIdle /\ HttpIdle /\ GitIdle /\ AuthIdle

\* one call of IsNotFoundOrAuthError(errIn)
CallIsNotFoundOrAuthError ==
    /\ errPc = "call"
    /\ errOut' = IsNotFoundOrAuthError(errIn)
    /\ errPc' = "done"
    /\ UNCHANGED <<errIn, pinVars, dhiVars, hardenVars, httpVars, gitVars, authVars>>

ErrNext == CallIsNotFoundOrAuthError

----------------------------------------------------------------------------
(* Image references (containers/image docker/reference).  A reference as   *)
(* written is a tuple of tokens: name components, "/", ":" and "@".  A     *)
(* parsed reference.Named is [domain, path, tag, digest], domain and path  *)
(* being token tuples; tag and digest are "" when absent.                  *)


\* strings.IndexRune at token level: the first position of tok in s, 0 if none
IndexTok(s, tok) ==
    IF \E i \in 1..Len(s) : s[i] = tok
    THEN CHOOSE i \in 1..Len(s) : s[i] = tok /\ \A j \in 1..(i - 1) : s[j] # tok
    ELSE 0

\* strings.HasPrefix
HasPrefix(s, prefix) ==
    Len(s) >= Len(prefix) /\ SubSeq(s, 1, Len(prefix)) = prefix

\* strings.TrimPrefix
TrimPrefix(s, prefix) ==
    IF HasPrefix(s, prefix) THEN SubSeq(s, Len(prefix) + 1, Len(s)) ELSE s

\* name components holding a "." (strings.ContainsAny(name[:i], ".:"))
DottedNames == {"docker.io", "index.docker.io", "dhi.io", "ghcr.io"}

defaultDomain == <<"docker.io">>
legacyDefaultDomain == <<"index.docker.io">>
officialRepoName == <<"library">>

\* strings.ContainsAny(name[:i], ".:") || name[:i] == "localhost"
looksLikeDomain(head) ==
    \/ \E k \in 1..Len(head) : head[k] \in DottedNames \/ head[k] = ":"
    \/ head = <<"localhost">>

\* splitDockerDomain, second half: the legacy domain is the default one, and
\* a single name on the default domain is an official repository
normalizeDomain(dom, rem) ==
    [domain |-> dom,
     remainder |-> IF dom = defaultDomain /\ IndexTok(rem, "/") = 0
                   THEN officialRepoName \o <<"/">> \o rem
                   ELSE rem]

\* splitDockerDomain, first half: name split at its first "/" (at i)
splitAt(name, i) ==
    IF i = 0 \/ ~looksLikeDomain(SubSeq(name, 1, i - 1))
    THEN normalizeDomain(defaultDomain, name)
    ELSE normalizeDomain(
            IF SubSeq(name, 1, i - 1) = legacyDefaultDomain
            THEN defaultDomain ELSE SubSeq(name, 1, i - 1),
            SubSeq(name, i + 1, Len(name)))

\* reference.splitDockerDomain: [domain, remainder]
splitDockerDomain(name) == splitAt(name, IndexTok(name, "/"))

\* reference.Parse, last step: the reference of a name, a tag and a digest
buildNamed(domain, name, tag, digest, wellFormed) ==
    IF ~(wellFormed /\ Len(name) >= 1 /\ name[1] # "/" /\ name[Len(name)] # "/")
    THEN [ref |-> NilRef, err |-> "invalid reference format"]
    ELSE [ref |-> [domain |-> domain, path |-> name, tag |-> tag, digest |-> digest],
          err |-> NoRefErr]

\* reference.Parse: the tag is what follows ":" (at colon) before the digest
parseTag(domain, beforeAt, colon, digest, wellFormed) ==
    buildNamed(domain,
               IF colon = 0 THEN beforeAt ELSE SubSeq(beforeAt, 1, colon - 1),
               IF colon # 0 /\ Len(beforeAt) = colon + 1 THEN beforeAt[colon + 1] ELSE "",
               digest,
               wellFormed /\ (colon # 0 => Len(beforeAt) = colon + 1))

\* reference.Parse: the digest is what follows "@" (at position at)
parseDigest(domain, rem, at) ==
    parseTag(domain,
             IF at = 0 THEN rem ELSE SubSeq(rem, 1, at - 1),
             IndexTok(IF at = 0 THEN rem ELSE SubSeq(rem, 1, at - 1), ":"),
             IF at # 0 /\ Len(rem) = at + 1 THEN rem[at + 1] ELSE "",
             at # 0 => Len(rem) = at + 1)

parseRemainder(sp) == parseDigest(sp.domain, sp.remainder, IndexTok(sp.remainder, "@"))

\* reference.ParseNormalizedNamed: [ref, err]
ParseNormalizedNamed(s) == parseRemainder(splitDockerDomain(s))

\* ref.(reference.Tagged), ref.(reference.Digested)
IsTagged(ref) == ref.tag # ""
IsDigested(ref) == ref.digest # ""

\* reference.Named.String()
RefString(ref) ==
    ref.domain \o <<"/">> \o ref.path
        \o (IF ref.tag # "" THEN <<":", ref.tag>> ELSE <<>>)
        \o (IF ref.digest # "" THEN <<"@", ref.digest>> ELSE <<>>)

----------------------------------------------------------------------------
(* Package dhi.                                                            *)

ErrNotEligible == "image not eligible for DHI mapping"
Registry == <<"dhi.io">>
DockerHubDomain == <<"docker.io">>
LibraryPrefix == <<"library", "/">>

\* dhi.CanMapToDHI
CanMapToDHI(ref) ==
    LET domain == ref.domain
        path == ref.path
    IN IF domain # DockerHubDomain
       THEN FALSE
       ELSE HasPrefix(path, LibraryPrefix)

\* dhi.MapToDHI: [ref, err]
MapToDHI(ref) ==
    IF ~CanMapToDHI(ref)
    THEN [ref |-> NilRef, err |-> ErrNotEligible]
    ELSE ParseNormalizedNamed(
            Registry \o <<"/">> \o TrimPrefix(ref.path, LibraryPrefix)
                \o (IF IsTagged(ref) THEN <<":", ref.tag>> ELSE <<>>))

\* The references the mapper is applied to, as written.
RefDomains ==
    { <<>>, <<"docker.io", "/">>, <<"index.docker.io", "/">>, <<"dhi.io", "/">>,
      <<"ghcr.io", "/">>, <<"localhost", ":", "5000", "/">> }
RefPaths ==
    { <<"alpine">>, <<"golang">>, <<"library", "/", "alpine">>,
      <<"myorg", "/", "myimage">>, <<"library", "/", "foo", "/", "bar">> }
RefTags == { <<>>, <<":", "3.18">> }
RefDigests == { <<>>, <<"@", "sha256:d0">> }

RefStrings ==
    { d \o p \o t \o g : d \in RefDomains, p \in RefPaths, t \in RefTags, g \in RefDigests }

\* as the tests do: parse the input, then hand it to the mapper
DhiInit ==
    /\ refStr \in RefStrings
    /\ ParseNormalizedNamed(refStr).err = NoRefErr
    /\ refNamed = ParseNormalizedNamed(refStr).ref
    /\ canMapOut = FALSE
    /\ mapOut = [ref |-> NilRef, err |-> NoRefErr]
    /\ remapOut = [ref |-> NilRef, err |-> NoRefErr]
    /\ dhiPc = "start"
    /\ PinIdle /\ ErrIdle /\ HardenIdle /\ HttpIdle /\ GitIdle /\ AuthIdle

CallCanMapToDHI ==
    /\ dhiPc = "start"
    /\ canMapOut' = CanMapToDHI(refNamed)
    /\ dhiPc' = "checked"
    /\ UNCHANGED <<refStr, refNamed, mapOut, remapOut, pinVars, errVars, hardenVars, httpVars, gitVars, authVars>>

CallMapToDHI ==
    /\ dhiPc = "checked"
    /\ mapOut' = MapToDHI(refNamed)
    /\ dhiPc' = "mapped"
    /\ UNCHANGED <<refStr, refNamed, canMapOut, remapOut, pinVars, errVars, hardenVars, httpVars, gitVars, authVars>>

\* the mapping applied to a reference it returned
CallMapToDHIAgain ==
    /\ dhiPc = "mapped"
    /\ mapOut.err = NoRefErr
    /\ remapOut' = MapToDHI(mapOut.ref)
    /\ dhiPc' = "remapped"
    /\ UNCHANGED <<refStr, refNamed, canMapOut, mapOut, pinVars, errVars, hardenVars, httpVars, gitVars, authVars>>

DhiNext ==
    \/ CallCanMapToDHI
    \/ CallMapToDHI
    \/ CallMapToDHIAgain

----------------------------------------------------------------------------
(* Package dockerfile: the references of a Dockerfile.  A file is           *)
(* [readable, instrs]; an instruction is FROM <image> [AS <name>] or        *)
(* COPY --from=<image>.                                                     *)

From(image, as) == [cmd |-> "FROM", image |-> image, as |-> as]
CopyFrom(image) == [cmd |-> "COPY", image |-> image, as |-> ""]

VarTokens == {"${BASE}", "$TAG"}
NumericTokens == {"0", "1"}

\* the classifier's skip rules for an image reference, given the stage names
\* declared so far in the file
IsSkippedImage(ins, stages) ==
    \/ ins.image = <<"scratch">>
    \/ Len(ins.image) = 1 /\ ins.image[1] \in stages
    \/ Len(ins.image) = 1 /\ ins.image[1] \in NumericTokens
    \/ \E k \in 1..Len(ins.image) : ins.image[k] \in VarTokens

\* an ImageRef: the text as written and its parsed reference
ImageRef(image) == [Original |-> image, Ref |-> ParseNormalizedNamed(image).ref]

RECURSIVE ParseInstrs(_, _, _)
ParseInstrs(instrs, i, stages) ==
    IF i > Len(instrs) THEN <<>>
    ELSE LET ins == instrs[i]
             declared == IF ins.cmd = "FROM" /\ ins.as # ""
                         THEN stages \cup {ins.as} ELSE stages
             rest == ParseInstrs(instrs, i + 1, declared)
         IN IF IsSkippedImage(ins, stages)
            THEN rest
            ELSE <<ImageRef(ins.image)>> \o rest

\* dockerfile.ParseFile: [refs, err]
ParseFile(file) ==
    IF ~file.readable
    THEN [refs |-> <<>>, err |-> Errorf("open", <<>>, "no such file or directory")]
    ELSE [refs |-> ParseInstrs(file.instrs, 1, {}), err |-> NoErr]

----------------------------------------------------------------------------
(* Package registry: Client.GetDigest against the upstream state.          *)

Manifests == {"mA", "mB"}
Failures == {"nosource", "nomanifest"}

\* manifest.Digest
ManifestDigest(m) == IF m = "mA" THEN "sha256:aaaa" ELSE "sha256:bbbb"

\* what the registry answers for a reference: a manifest, or how it fails
RegistryLookup(key) ==
    IF key \in DOMAIN registry THEN registry[key] ELSE "mA"

\* reference.WithTag
WithTag(ref, tag) == [ref EXCEPT !.tag = tag]

\* the reference GetDigest asks the registry for: "latest" added when the
\* reference has neither tag nor digest
GetDigestKey(ref) ==
    RefString(IF ~IsTagged(ref) /\ ~IsDigested(ref) THEN WithTag(ref, "latest") ELSE ref)

\* Client.GetDigest once the reference to ask for (key) is built
fetchManifest(ref, key) ==
    IF IsTagged(ref) /\ IsDigested(ref)
    THEN [digest |-> "", err |-> Errorf("failed to create docker reference", key, "tag and digest")]
    ELSE IF RegistryLookup(key) = "nosource"
    THEN [digest |-> "", err |-> Errorf("failed to create image source for", key, "registry")]
    ELSE IF RegistryLookup(key) = "nomanifest"
    THEN [digest |-> "", err |-> Errorf("failed to get manifest for", key, "registry")]
    ELSE [digest |-> ManifestDigest(RegistryLookup(key)), err |-> NoErr]

\* Client.GetDigest: [digest, err]
GetDigest(ref) == fetchManifest(ref, GetDigestKey(ref))

----------------------------------------------------------------------------
(* Package policy and the digest library.                                  *)

ValidDigests == {"sha256:aaaa", "sha256:bbbb", "sha256:d0"}

\* digest.Parse: [d, err]
DigestParse(str) ==
    IF str \in ValidDigests
    THEN [d |-> str, err |-> NoErr]
    ELSE [d |-> "", err |-> Errorf("invalid checksum digest format", <<str>>, "nil")]

\* reference.WithDigest: [ref, err]
WithDigest(ref, d) ==
    IF d \in ValidDigests
    THEN [ref |-> [ref EXCEPT !.digest = d], err |-> NoErr]
    ELSE [ref |-> NilRef, err |-> Errorf("invalid reference format", <<d>>, "nil")]

Scheme == <<"docker-image://">>

\* Policy.AddPinRule: one CONVERT rule appended
AddPinRule(rs, original, pinned) ==
    Append(rs, [action |-> "CONVERT",
                selector |-> Scheme \o original,
                updates |-> Scheme \o pinned])

IndentUnit == 2
Line(depth, text) == [indent |-> depth * IndentUnit, text |-> text]

RuleLines(rule, last) ==
    << Line(2, <<"{">>),
       Line(3, <<"action", ":", rule.action, ",">>),
       Line(3, <<"selector", ":", "{">>),
       Line(4, <<"identifier", ":">> \o rule.selector),
       Line(3, <<"}", ",">>),
       Line(3, <<"updates", ":", "{">>),
       Line(4, <<"identifier", ":">> \o rule.updates),
       Line(3, <<"}">>),
       Line(2, IF last THEN <<"}">> ELSE <<"}", ",">>) >>

RECURSIVE RulesLines(_, _)
RulesLines(rs, i) ==
    IF i > Len(rs) THEN <<>>
    ELSE RuleLines(rs[i], i = Len(rs)) \o RulesLines(rs, i + 1)

\* pin.WritePolicy: the indented JSON document, line by line
WritePolicy(pol) ==
    <<Line(0, <<"{">>), Line(1, <<"rules", ":", "[">>)>>
        \o RulesLines(pol.rules, 1)
        \o <<Line(1, <<"]">>), Line(0, <<"}">>)>>

----------------------------------------------------------------------------
(* Package pin: GeneratePolicy.                                            *)

\* "return nil, fmt.Errorf(...)" keeping the rules appended so far
ReturnError_PartialPolicy(rs, e) == [pol |-> Policy(rs), err |-> e]

\* "return nil, fmt.Errorf(...)"
ReturnError(rs, e) == [pol |-> NilPolicy, err |-> e]

\* "for _, ref := range refs" walking the slice backwards
RefAt_Backwards(rfs, i) == rfs[Len(rfs) + 1 - i]

\* "for _, ref := range refs": the i-th reference
RefAt(rfs, i) == rfs[i]

\* the loop body from reference.WithDigest on
addPinned(ref, seen2, rs, pinnedRef) ==
    IF pinnedRef.err # NoErr
    THEN [seen |-> seen2, rules |-> rs, called |-> <<GetDigestKey(ref.Ref)>>,
          err |-> Errorf("failed to create pinned reference for", ref.Original, pinnedRef.err)]
    ELSE [seen |-> seen2,
          rules |-> AddPinRule(rs, ref.Original, RefString(pinnedRef.ref)),
          called |-> <<GetDigestKey(ref.Ref)>>, err |-> NoErr]

\* the loop body from digest.Parse on
pinDigest(ref, seen2, rs, digestStr, d) ==
    IF d.err # NoErr
    THEN [seen |-> seen2, rules |-> rs, called |-> <<GetDigestKey(ref.Ref)>>,
          err |-> Errorf("failed to parse digest", <<digestStr>>, d.err)]
    ELSE addPinned(ref, seen2, rs, WithDigest(ref.Ref, d.d))

\* the loop body once client.GetDigest has returned g
pinRef(ref, seen2, rs, g) ==
    IF g.err # NoErr
    THEN [seen |-> seen2, rules |-> rs, called |-> <<GetDigestKey(ref.Ref)>>,
          err |-> Errorf("failed to get digest for", ref.Original, g.err)]
    ELSE pinDigest(ref, seen2, rs, g.digest, DigestParse(g.digest))

\* the loop body without the "seen" test
ProcessRef_NoSeenTest(ref, seenNow, rs) ==
    IF IsDigested(ref.Ref)
    THEN [seen |-> seenNow \cup {ref.Original}, rules |-> rs, called |-> <<>>, err |-> NoErr]
    ELSE pinRef(ref, seenNow \cup {ref.Original}, rs, GetDigest(ref.Ref))

\* the loop body without the reference.Digested test
ProcessRef_NoDigestedTest(ref, seenNow, rs) ==
    IF ref.Original \in seenNow
    THEN [seen |-> seenNow, rules |-> rs, called |-> <<>>, err |-> NoErr]
    ELSE pinRef(ref, seenNow \cup {ref.Original}, rs, GetDigest(ref.Ref))

\* the body of the loop over refs, for one reference:
\* [seen, rules, called, err], err # NoErr when GeneratePolicy returns
ProcessRef(ref, seenNow, rs) ==
    IF ref.Original \in seenNow
    THEN [seen |-> seenNow, rules |-> rs, called |-> <<>>, err |-> NoErr]
    ELSE IF IsDigested(ref.Ref)
    THEN [seen |-> seenNow \cup {ref.Original}, rules |-> rs, called |-> <<>>, err |-> NoErr]
    ELSE pinRef(ref, seenNow \cup {ref.Original}, rs, GetDigest(ref.Ref))

\* the set a run starts with when the seen map outlives the run
NewSeen_KeptAcrossRuns(old) == old

\* "seen := make(map[string]bool)"
NewSeen(old) == {}

\* client := registry.NewClient(); pol := policy.NewPolicy(); seen := make(...)
Begin ==
    /\ pc = "start"
    /\ seen' = NewSeen(seen)
    /\ rules' = <<>>
    /\ fileIdx' = 1
    /\ refs' = <<>>
    /\ refIdx' = 0
    /\ pc' = "files"
    /\ UNCHANGED <<dockerfiles, registry, ret, calls, out, run, doc1, errVars, dhiVars, hardenVars, httpVars, gitVars, authVars>>

\* the loop over opts.Dockerfiles: dockerfile.ParseFile of the next file
NextDockerfile ==
    /\ pc = "files"
    /\ fileIdx <= Len(dockerfiles)
    /\ LET parsed == ParseFile(dockerfiles[fileIdx])
       IN IF parsed.err # NoErr
          THEN /\ ret' = ReturnError(rules, Errorf("failed to parse", <<fileIdx>>, parsed.err))
               /\ pc' = "done"
               /\ UNCHANGED <<refs, refIdx>>
          ELSE /\ refs' = parsed.refs
               /\ refIdx' = 1
               /\ pc' = "refs"
               /\ UNCHANGED ret
    /\ UNCHANGED <<dockerfiles, registry, fileIdx, seen, rules, calls, out, run, doc1, errVars, dhiVars, hardenVars, httpVars, gitVars, authVars>>

\* one iteration of the loop over refs that goes on to the next reference
\* after an error
NextRef_ContinuesAfterError ==
    /\ pc = "refs"
    /\ refIdx <= Len(refs)
    /\ LET r == ProcessRef(RefAt(refs, refIdx), seen, rules)
       IN /\ seen' = r.seen
          /\ calls' = calls \o r.called
          /\ ret' = IF r.err # NoErr THEN ReturnError(rules, r.err) ELSE ret
          /\ rules' = r.rules
          /\ refIdx' = refIdx + 1
          /\ UNCHANGED pc
    /\ UNCHANGED <<dockerfiles, registry, fileIdx, refs, out, run, doc1, errVars, dhiVars, hardenVars, httpVars, gitVars, authVars>>

\* one iteration of the loop over refs
NextRef ==
    /\ pc = "refs"
    /\ refIdx <= Len(refs)
    /\ LET r == ProcessRef(RefAt(refs, refIdx), seen, rules)
       IN /\ seen' = r.seen
          /\ calls' = calls \o r.called
          /\ IF r.err # NoErr
             THEN /\ ret' = ReturnError(rules, r.err)
                  /\ pc' = "done"
                  /\ UNCHANGED <<rules, refIdx>>
             ELSE /\ rules' = r.rules
                  /\ refIdx' = refIdx + 1
                  /\ UNCHANGED <<ret, pc>>
    /\ UNCHANGED <<dockerfiles, registry, fileIdx, refs, out, run, doc1, errVars, dhiVars, hardenVars, httpVars, gitVars, authVars>>

\* the loop over refs ends: on to the next Dockerfile
EndOfRefs ==
    /\ pc = "refs"
    /\ refIdx > Len(refs)
    /\ fileIdx' = fileIdx + 1
    /\ pc' = "files"
    /\ UNCHANGED <<dockerfiles, registry, refs, refIdx, seen, rules, ret, calls, out, run, doc1, errVars, dhiVars, hardenVars, httpVars, gitVars, authVars>>

\* "return pol, nil"
ReturnPolicy ==
    /\ pc = "files"
    /\ fileIdx > Len(dockerfiles)
    /\ ret' = [pol |-> Policy(rules), err |-> NoErr]
    /\ pc' = "done"
    /\ UNCHANGED <<dockerfiles, registry, fileIdx, refs, refIdx, seen, rules, calls, out, run, doc1, errVars, dhiVars, hardenVars, httpVars, gitVars, authVars>>

\* pin.WritePolicy of the returned policy
CallWritePolicy ==
    /\ pc = "done"
    /\ ret.err = NoErr
    /\ out' = WritePolicy(ret.pol)
    /\ pc' = "written"
    /\ UNCHANGED <<dockerfiles, registry, fileIdx, refs, refIdx, seen, rules, ret, calls, run, doc1, errVars, dhiVars, hardenVars, httpVars, gitVars, authVars>>

\* the program is run again over the same inputs and the same upstream state
RunAgain ==
    /\ pc = "written"
    /\ run = 1
    /\ doc1' = out
    /\ run' = 2
    /\ out' = <<>>
    /\ calls' = <<>>
    /\ ret' = [pol |-> NilPolicy, err |-> NoErr]
    /\ pc' = "start"
    /\ UNCHANGED <<dockerfiles, registry, fileIdx, refs, refIdx, seen, rules, errVars, dhiVars, hardenVars, httpVars, gitVars, authVars>>

PinNext ==
    \/ Begin
    \/ NextDockerfile
    \/ NextRef
    \/ EndOfRefs
    \/ ReturnPolicy
    \/ CallWritePolicy
    \/ RunAgain

----------------------------------------------------------------------------
(* The inputs of a run.                                                    *)

MaxFiles == 2
MaxRefs == 3

SeqsUpTo(S, n) == UNION { [1..k -> S] : k \in 0..n }

\* a file that cannot be read, or one with at most n instructions
FilesUpTo(alphabet, n) ==
    { [readable |-> FALSE, instrs |-> <<>>] }
        \cup { [readable |-> TRUE, instrs |-> is] : is \in SeqsUpTo(alphabet, n) }

\* at most k files holding at most n instructions together
RECURSIVE InputsUpTo(_, _, _)
InputsUpTo(alphabet, k, n) ==
    IF k = 0 THEN { <<>> }
    ELSE { <<>> } \cup
         UNION { { <<f>> \o rest : rest \in InputsUpTo(alphabet, k - 1, n - Len(f.instrs)) }
                 : f \in FilesUpTo(alphabet, n) }

CoreInstrs ==
    { From(<<"alpine", ":", "3.18">>, ""),
      From(<<"alpine">>, ""),
      From(<<"alpine", "@", "sha256:d0">>, "") }

SkipInstrs ==
    { From(<<"alpine", ":", "3.18">>, "build"),
      From(<<"build">>, ""),
      From(<<"scratch">>, ""),
      CopyFrom(<<"0">>),
      From(<<"alpine", ":", "$TAG">>, ""),
      From(<<"alpine", "@", "sha256:d0">>, "") }

RegistryKeys ==
    { GetDigestKey(ImageRef(<<"alpine", ":", "3.18">>).Ref),
      GetDigestKey(ImageRef(<<"alpine">>).Ref),
      GetDigestKey(ImageRef(<<"build">>).Ref) }

\* the references of the inputs that GetDigest may be asked for
RECURSIVE AskedKeys(_, _)
AskedKeys(fs, i) ==
    IF i > Len(fs) THEN {}
    ELSE LET rfs == ParseFile(fs[i]).refs
         IN { GetDigestKey(rfs[j].Ref) : j \in 1..Len(rfs) } \cup AskedKeys(fs, i + 1)

\* upstream states: an answer for every reference the inputs name
RegistryStates(fs) ==
    { r \in [RegistryKeys -> Manifests \cup Failures] :
        \A k \in RegistryKeys \ AskedKeys(fs, 1) : r[k] = "mA" }

PinInit ==
    /\ dockerfiles \in InputsUpTo(CoreInstrs, MaxFiles, MaxRefs)
    /\ registry \in RegistryStates(dockerfiles)
    /\ pc = "start"
    /\ fileIdx = 0
    /\ refs = <<>>
    /\ refIdx = 0
    /\ seen = {}
    /\ rules = <<>>
    /\ ret = [pol |-> NilPolicy, err |-> NoErr]
    /\ calls = <<>>
    /\ out = <<>>
    /\ run = 1
    /\ doc1 = <<>>
    /\ ErrIdle /\ DhiIdle /\ HardenIdle /\ HttpIdle /\ GitIdle /\ AuthIdle

\* one Dockerfile holding every kind of skipped reference
SkipInit ==
    /\ dockerfiles \in { <<f>> : f \in FilesUpTo(SkipInstrs, MaxRefs) }
    /\ registry \in RegistryStates(dockerfiles)
    /\ pc = "start"
    /\ fileIdx = 0
    /\ refs = <<>>
    /\ refIdx = 0
    /\ seen = {}
    /\ rules = <<>>
    /\ ret = [pol |-> NilPolicy, err |-> NoErr]
    /\ calls = <<>>
    /\ out = <<>>
    /\ run = 1
    /\ doc1 = <<>>
    /\ ErrIdle /\ DhiIdle /\ HardenIdle /\ HttpIdle /\ GitIdle /\ AuthIdle

----------------------------------------------------------------------------
(* Image resolution with the hardened mirror preferred (--prefer-dhi):     *)
(* an eligible reference is first resolved on dhi.io; a not-found or       *)
(* unauthorized answer there falls back to the reference as written.       *)

\* the text of the name components used below
TokenChars(tok) ==
    CASE tok = "/" -> <<"/">>
      [] tok = ":" -> <<":">>
      [] tok = "@" -> <<"@">>
      [] tok = "docker.io" -> <<"d", "o", "c", "k", "e", "r", ".", "i", "o">>
      [] tok = "dhi.io" -> <<"d", "h", "i", ".", "i", "o">>
      [] tok = "ghcr.io" -> <<"g", "h", "c", "r", ".", "i", "o">>
      [] tok = "library" -> <<"l", "i", "b", "r", "a", "r", "y">>
      [] tok = "golang" -> <<"g", "o", "l", "a", "n", "g">>
      [] tok = "alpine" -> <<"a", "l", "p", "i", "n", "e">>
      [] tok = "myorg" -> <<"m", "y", "o", "r", "g">>
      [] tok = "myimage" -> <<"m", "y", "i", "m", "a", "g", "e">>
      [] tok = "actions" -> <<"a", "c", "t", "i", "o", "n", "s">>
      [] tok = "runner" -> <<"r", "u", "n", "n", "e", "r">>
      [] tok = "1.23" -> <<"1", ".", "2", "3">>
      [] tok = "3.18" -> <<"3", ".", "1", "8">>
      [] tok = "latest" -> <<"l", "a", "t", "e", "s", "t">>
      [] OTHER -> <<"?">>

\* ref.String() as text
RECURSIVE RefChars(_, _)
RefChars(toks, i) ==
    IF i > Len(toks) THEN <<>> ELSE TokenChars(toks[i]) \o RefChars(toks, i + 1)

\* how a registry fails: at NewImageSource or at GetManifest, with a cause
Failure(stage, cause) == [stage |-> stage, cause |-> cause, manifest |-> "none"]

\* a registry serving manifest m
Served(m) == [stage |-> "served", cause |-> <<>>, manifest |-> m]

\* Client.GetDigest for a reference whose registry gives answer:
\* [digest, err], err carrying the text fmt.Errorf builds
GetDigestAnswered(ref, answer) ==
    IF answer.stage = "served"
    THEN [digest |-> ManifestDigest(answer.manifest), err |-> NilErr]
    ELSE [digest |-> "",
          err |-> Err((IF answer.stage = "source"
                       THEN <<"f", "a", "i", "l", "e", "d", " ", "t", "o", " ", "c", "r", "e", "a", "t", "e", " ", "i", "m", "a", "g", "e", " ", "s", "o", "u", "r", "c", "e", " ", "f", "o", "r", " ">>
                       ELSE <<"f", "a", "i", "l", "e", "d", " ", "t", "o", " ", "g", "e", "t", " ", "m", "a", "n", "i", "f", "e", "s", "t", " ", "f", "o", "r", " ">>)
                      \o RefChars(GetDigestKey(ref), 1) \o <<":", " ">> \o answer.cause)]

\* the rule pinning original to ref at digest
PinRule(original, ref, digest) ==
    [action |-> "CONVERT",
     selector |-> Scheme \o original,
     updates |-> Scheme \o RefString(WithDigest(ref, digest).ref)]

\* the references resolved, as written
HardenRefs ==
    { ImageRef(<<"golang", ":", "1.23">>),
      ImageRef(<<"alpine">>),
      ImageRef(<<"docker.io", "/", "library", "/", "alpine", ":", "3.18">>),
      ImageRef(<<"myorg", "/", "myimage">>),
      ImageRef(<<"ghcr.io", "/", "actions", "/", "runner", ":", "latest">>),
      ImageRef(<<"dhi.io", "/", "alpine", ":", "3.18">>) }

\* what dhi.io may answer
DhiAnswers ==
    { Served("mA") } \cup
    { Failure("manifest", c) : c \in
        { <<"m", "a", "n", "i", "f", "e", "s", "t", " ", "u", "n", "k", "n", "o", "w", "n">>, <<"S", "t", "a", "t", "u", "s", "C", "o", "d", "e", ":", " ", "4", "0", "4", ",", " ">>, <<"N", "o", "t", " ", "F", "o", "u", "n", "d">>,
          <<"n", "a", "m", "e", " ", "u", "n", "k", "n", "o", "w", "n">>, <<"i", "/", "o", " ", "t", "i", "m", "e", "o", "u", "t">> } } \cup
    { Failure("source", c) : c \in
        { <<"U", "N", "A", "U", "T", "H", "O", "R", "I", "Z", "E", "D", ":", " ", "a", "u", "t", "h", "e", "n", "t", "i", "c", "a", "t", "i", "o", "n", " ", "r", "e", "q", "u", "i", "r", "e", "d">>,
          <<"r", "e", "q", "u", "e", "s", "t", "e", "d", " ", "a", "c", "c", "e", "s", "s", " ", "t", "o", " ", "t", "h", "e", " ", "r", "e", "s", "o", "u", "r", "c", "e", " ", "i", "s", " ", "d", "e", "n", "i", "e", "d">>,
          <<"c", "o", "n", "n", "e", "c", "t", "i", "o", "n", " ", "r", "e", "f", "u", "s", "e", "d">> } }

\* what the original registry may answer
OrigAnswers ==
    { Served("mB"), Failure("manifest", <<"m", "a", "n", "i", "f", "e", "s", "t", " ", "u", "n", "k", "n", "o", "w", "n">>),
      Failure("source", <<"c", "o", "n", "n", "e", "c", "t", "i", "o", "n", " ", "r", "e", "f", "u", "s", "e", "d">>) }

HardenInit ==
    /\ hRef \in HardenRefs
    /\ hPreferDHI \in BOOLEAN
    /\ hDhiAnswer \in DhiAnswers
    /\ hOrigAnswer \in OrigAnswers
    /\ hPc = "start"
    /\ hCalls = <<>>
    /\ hRules = <<>>
    /\ hErr = NilErr
    /\ PinIdle /\ ErrIdle /\ DhiIdle /\ HttpIdle /\ GitIdle /\ AuthIdle

\* hardened-mirror mode applies to eligible references only
ChooseRegistry ==
    /\ hPc = "start"
    /\ hPc' = IF hPreferDHI /\ CanMapToDHI(hRef.Ref) THEN "dhi" ELSE "original"
    /\ UNCHANGED <<hRef, hPreferDHI, hDhiAnswer, hOrigAnswer, hCalls, hRules, hErr, pinVars, errVars, dhiVars, httpVars, gitVars, authVars>>

\* the attempt against the rewritten hardened-registry reference
TryDHI ==
    /\ hPc = "dhi"
    /\ LET dhiRef == MapToDHI(hRef.Ref).ref
           g == GetDigestAnswered(dhiRef, hDhiAnswer)
       IN /\ hCalls' = Append(hCalls, GetDigestKey(dhiRef))
          /\ IF g.err = NilErr
             THEN /\ hRules' = Append(hRules, PinRule(hRef.Original, dhiRef, g.digest))
                  /\ hPc' = "done"
                  /\ UNCHANGED hErr
             ELSE IF IsNotFoundOrAuthError(g.err)
             THEN /\ hPc' = "original"
                  /\ UNCHANGED <<hRules, hErr>>
             ELSE /\ hErr' = g.err
                  /\ hPc' = "done"
                  /\ UNCHANGED hRules
    /\ UNCHANGED <<hRef, hPreferDHI, hDhiAnswer, hOrigAnswer, pinVars, errVars, dhiVars, httpVars, gitVars, authVars>>

\* resolving the unmodified original
ResolveOriginal ==
    /\ hPc = "original"
    /\ LET g == GetDigestAnswered(hRef.Ref, hOrigAnswer)
       IN /\ hCalls' = Append(hCalls, GetDigestKey(hRef.Ref))
          /\ IF g.err = NilErr
             THEN /\ hRules' = Append(hRules, PinRule(hRef.Original, hRef.Ref, g.digest))
                  /\ UNCHANGED hErr
             ELSE /\ hErr' = g.err
                  /\ UNCHANGED hRules
          /\ hPc' = "done"
    /\ UNCHANGED <<hRef, hPreferDHI, hDhiAnswer, hOrigAnswer, pinVars, errVars, dhiVars, httpVars, gitVars, authVars>>

HardenNext ==
    \/ ChooseRegistry
    \/ TryDHI
    \/ ResolveOriginal

----------------------------------------------------------------------------
(* testutil.MockHTTPServer and the HTTP checksum resolution run against it. *)

\* file contents and their sha256, hex encoded (64 hex characters each)
Contents == { "c1", "c2" }
ApiBodies == { "assets", "assets+digest" }
Sha256Hex(content) ==
    CASE content = "c1" -> "hex1"
      [] content = "c2" -> "hex2"
      [] content = "assets" -> "hex3"
      [] content = "assets+digest" -> "hex4"
HexDigests == { Sha256Hex(c) : c \in Contents \cup ApiBodies }

\* the raw sha256 of content, base64 encoded, and its decoding to hex
Sha256Base64(content) ==
    CASE content = "c1" -> "b64-1"
      [] content = "c2" -> "b64-2"
      [] OTHER -> "b64-0"
Base64ToHex(b) ==
    CASE b = "b64-1" -> "hex1"
      [] b = "b64-2" -> "hex2"
      [] OTHER -> "hex0"

\* header maps; <<>> is an absent header
HeaderNames == { "ETag", "x-amz-checksum-sha256", "Vary" }
NoHeaders == [h \in HeaderNames |-> <<>>]
NoFile == [present |-> FALSE, content |-> "", headers |-> NoHeaders]

\* MockHTTPServer.AddFileWithHeaders: the files afterwards and the checksum returned
AddFileWithHeaders(files, path, content, headers) ==
    [files |-> [q \in DOMAIN files |->
                  IF q = path
                  THEN [present |-> TRUE, content |-> content, headers |-> headers]
                  ELSE files[q]],
     checksum |-> <<"sha256:", Sha256Hex(content)>>]

\* MockHTTPServer.AddFile
AddFile(files, path, content) == AddFileWithHeaders(files, path, content, NoHeaders)

Response(status, headers, body) == [status |-> status, headers |-> headers, body |-> body]

\* the mock server's handler answering HEAD without an ETag
Handler_NoETagOnHead(srv, method, path) ==
    [requests |-> Append(srv.requests, <<method, " ", path>>),
     resp |-> IF ~srv.files[path].present
              THEN Response(404, NoHeaders, "")
              ELSE IF method = "HEAD"
              THEN Response(200, srv.files[path].headers, "")
              ELSE Response(200, srv.files[path].headers, srv.files[path].content)]

\* the handler of NewMockHTTPServer: the request log afterwards and the response
Handler(srv, method, path) ==
    [requests |-> Append(srv.requests, <<method, " ", path>>),
     resp |-> IF ~srv.files[path].present
              THEN Response(404, NoHeaders, "")
              ELSE IF method = "HEAD"
              THEN Response(200,
                            [srv.files[path].headers EXCEPT
                                !["ETag"] = <<Sha256Hex(srv.files[path].content)>>],
                            "")
              ELSE Response(200, srv.files[path].headers, srv.files[path].content)]

\* an upstream host whose ETag is an opaque quoted validator
OriginHandler(srv, method, path) ==
    [requests |-> Append(srv.requests, <<method, " ", path>>),
     resp |-> IF ~srv.files[path].present
              THEN Response(404, NoHeaders, "")
              ELSE IF method = "HEAD"
              THEN Response(200,
                            [srv.files[path].headers EXCEPT
                                !["ETag"] = <<"\"", "v1", "\"">>],
                            "")
              ELSE Response(200, srv.files[path].headers, srv.files[path].content)]

\* a request to the server behind the URL
Serve(srv, method, path) ==
    IF srv.kind = "mock" THEN Handler(srv, method, path)
    ELSE OriginHandler(srv, method, path)

\* MockHTTPServer.HasRequest
HasRequest(srv, pattern) ==
    \E i \in 1..Len(srv.requests) : Contains(srv.requests[i], pattern)

\* a bare 64-hex-character ETag
IsBareHex64(etag) == Len(etag) = 1 /\ etag[1] \in HexDigests

\* the digest field of the asset listing, <<>> if it has none
AssetDigest(body) ==
    IF body = "assets+digest" THEN <<"sha256:", Sha256Hex("c1")>> ELSE <<>>

Is2xx(status) == status >= 200 /\ status < 300

HttpHosts == { "raw", "release", "s3", "other" }
Paths == { "/f", "/api" }

\* the files a server may hold: the source, with or without the headers an
\* object store or a negotiating origin sends, and the asset listing
SourceFiles ==
    { NoFile } \cup
    { [present |-> TRUE, content |-> c,
       headers |-> [NoHeaders EXCEPT
                      !["x-amz-checksum-sha256"] = IF amz THEN <<Sha256Base64(c)>> ELSE <<>>,
                      !["Vary"] = IF vary THEN <<"Accept-Encoding">> ELSE <<>>]] :
        c \in Contents, amz \in BOOLEAN, vary \in BOOLEAN }
ApiFiles ==
    { NoFile } \cup
    { [present |-> TRUE, content |-> b, headers |-> NoHeaders] : b \in ApiBodies }

HttpInit ==
    /\ url \in [host : HttpHosts, path : {"/f"}, api : {"/api"}]
    /\ \E kind \in {"mock", "origin"}, f \in SourceFiles, a \in ApiFiles :
          ms = [kind |-> kind,
                files |-> [q \in Paths |-> IF q = "/f" THEN f ELSE a],
                requests |-> <<>>]
    /\ httpPc = "etag"
    /\ checksum = <<>>
    /\ decidedBy = "none"
    /\ captured = <<>>
    /\ httpErr = NoErr
    /\ PinIdle /\ ErrIdle /\ DhiIdle /\ HardenIdle /\ GitIdle /\ AuthIdle

\* the outcome of one strategy: decided, or passed on to the next
Decide(by, sum, served) ==
    /\ checksum' = sum
    /\ decidedBy' = by
    /\ httpPc' = "vary"
    /\ ms' = [ms EXCEPT !.requests = served.requests]
    /\ UNCHANGED <<url, captured, httpErr, pinVars, errVars, dhiVars, hardenVars, gitVars, authVars>>

PassOn(nextPc, requests) ==
    /\ httpPc' = nextPc
    /\ ms' = [ms EXCEPT !.requests = requests]
    /\ UNCHANGED <<url, checksum, decidedBy, captured, httpErr, pinVars, errVars, dhiVars, hardenVars, gitVars, authVars>>

\* 1. known raw-content hosts: the ETag of a HEAD request
TryETagOf(served) ==
    IF Is2xx(served.resp.status) /\ IsBareHex64(served.resp.headers["ETag"])
    THEN Decide("etag", <<"sha256:">> \o served.resp.headers["ETag"], served)
    ELSE PassOn("release", served.requests)

TryETag ==
    /\ httpPc = "etag"
    /\ IF url.host = "raw"
       THEN TryETagOf(Serve(ms, "HEAD", url.path))
       ELSE PassOn("release", ms.requests)

\* 2. known release-hosting APIs: the digest field of the asset listing
TryReleaseAPIOf(served) ==
    IF Is2xx(served.resp.status) /\ AssetDigest(served.resp.body) # <<>>
    THEN Decide("release", AssetDigest(served.resp.body), served)
    ELSE PassOn("s3", served.requests)

TryReleaseAPI ==
    /\ httpPc = "release"
    /\ IF url.host = "release"
       THEN TryReleaseAPIOf(Serve(ms, "GET", url.api))
       ELSE PassOn("s3", ms.requests)

\* 3. known object-storage hosts: the checksum header of a HEAD request
TryObjectStoreOf(served) ==
    IF Is2xx(served.resp.status) /\ served.resp.headers["x-amz-checksum-sha256"] # <<>>
    THEN Decide("s3",
                <<"sha256:", Base64ToHex(served.resp.headers["x-amz-checksum-sha256"][1])>>,
                served)
    ELSE PassOn("fallback", served.requests)

TryObjectStore ==
    /\ httpPc = "s3"
    /\ IF url.host = "s3"
       THEN TryObjectStoreOf(Serve(ms, "HEAD", url.path))
       ELSE PassOn("fallback", ms.requests)

\* 4. fallback: sha256 over the full body of a GET request
FallbackOf(served) ==
    IF Is2xx(served.resp.status)
    THEN Decide("fallback", <<"sha256:", Sha256Hex(served.resp.body)>>, served)
    ELSE /\ httpErr' = Errorf("unexpected status", <<served.resp.status>>, "response")
         /\ httpPc' = "done"
         /\ ms' = [ms EXCEPT !.requests = served.requests]
         /\ UNCHANGED <<url, checksum, decidedBy, captured, pinVars, errVars, dhiVars, hardenVars, gitVars, authVars>>

Fallback ==
    /\ httpPc = "fallback"
    /\ FallbackOf(Serve(ms, "GET", url.path))

\* variance capture: a HEAD probe reading the Vary header
ProbeVaryOf(served) ==
    /\ captured' = served.resp.headers["Vary"]
    /\ httpPc' = "done"
    /\ ms' = [ms EXCEPT !.requests = served.requests]
    /\ UNCHANGED <<url, checksum, decidedBy, httpErr, pinVars, errVars, dhiVars, hardenVars, gitVars, authVars>>

ProbeVary ==
    /\ httpPc = "vary"
    /\ ProbeVaryOf(Serve(ms, "HEAD", url.path))

HttpNext ==
    \/ TryETag
    \/ TryReleaseAPI
    \/ TryObjectStore
    \/ Fallback
    \/ ProbeVary

----------------------------------------------------------------------------
(* The Git resolver: a ref is a commit id already, or is looked up in the  *)
(* output of git ls-remote.                                                *)

\* the length of a full commit id
ShaLen == 40
HexChars == { "0", "1", "2", "3", "4", "5", "6", "7", "8", "9",
              "a", "b", "c", "d", "e", "f" }

Is40Hex(s) == Len(s) = ShaLen /\ \A i \in 1..Len(s) : s[i] \in HexChars

Repeat(c, n) == [i \in 1..n |-> c]

\* the objects of the remote repository: commits, and tag objects with the
\* object each points to (t2 is a tag of the tag t1)
Commits == { "k1", "k2" }
TagObjects == { "t1", "t2" }
TagTarget(obj) == IF obj = "t1" THEN "k2" ELSE "t1"

\* the id of an object
ObjectId(obj) ==
    CASE obj = "k1" -> Repeat("a", ShaLen)
      [] obj = "k2" -> Repeat("b", ShaLen)
      [] obj = "t1" -> Repeat("c", ShaLen)
      [] obj = "t2" -> Repeat("d", ShaLen)

\* the commit an object ultimately points to
RECURSIVE Peel(_)
Peel(obj) == IF obj \in Commits THEN obj ELSE Peel(TagTarget(obj))

\* git ls-remote: one line per branch and tag, and for a tag that points to a
\* tag object a second line, name^{}, with the peeled commit
PeeledSuffix == <<"^", "{", "}">>
BranchNames == { <<"m", "a", "i", "n">>, <<"v", "1">> }
TagNames == { <<"v", "1">>, <<"v", "2">> }
Absent == "none"

LsRemote(remote) ==
    { << ObjectId(remote.heads[b]), <<"r", "e", "f", "s", "/", "h", "e", "a", "d", "s", "/">> \o b >> :
        b \in { n \in BranchNames : remote.heads[n] # Absent } }
    \cup
    { << ObjectId(remote.tags[t]), <<"r", "e", "f", "s", "/", "t", "a", "g", "s", "/">> \o t >> :
        t \in { n \in TagNames : remote.tags[n] # Absent } }
    \cup
    { << ObjectId(Peel(remote.tags[t])), <<"r", "e", "f", "s", "/", "t", "a", "g", "s", "/">> \o t \o PeeledSuffix >> :
        t \in { n \in TagNames : remote.tags[n] \in TagObjects } }

\* the ids listed under a ref name
IdsOf(listing, name) == { l[1] : l \in { x \in listing : x[2] = name } }

\* a tag's own id instead of the commit it points to
MatchTag_OwnId(listing, ref) ==
    IdsOf(listing, <<"r", "e", "f", "s", "/", "t", "a", "g", "s", "/">> \o ref)

\* an exact tag: its peeled line if there is one, else its own line
MatchTag(listing, ref) ==
    IF IdsOf(listing, <<"r", "e", "f", "s", "/", "t", "a", "g", "s", "/">> \o ref \o PeeledSuffix) # {}
    THEN IdsOf(listing, <<"r", "e", "f", "s", "/", "t", "a", "g", "s", "/">> \o ref \o PeeledSuffix)
    ELSE IdsOf(listing, <<"r", "e", "f", "s", "/", "t", "a", "g", "s", "/">> \o ref)

\* an exact branch first, then an exact tag; {} when neither is listed
MatchRef(listing, ref) ==
    IF IdsOf(listing, <<"r", "e", "f", "s", "/", "h", "e", "a", "d", "s", "/">> \o ref) # {}
    THEN IdsOf(listing, <<"r", "e", "f", "s", "/", "h", "e", "a", "d", "s", "/">> \o ref)
    ELSE MatchTag(listing, ref)

\* the refs asked for: branch and tag names, unknown names, commit ids, and
\* texts that are nearly commit ids
GitRefs ==
    { <<"m", "a", "i", "n">>, <<"v", "1">>, <<"v", "2">>, <<"n", "o", "p", "e">>,
      Repeat("a", ShaLen), Repeat("e", ShaLen),
      Repeat("a", 7), Repeat("a", ShaLen - 1), Repeat("a", ShaLen + 1),
      Repeat("g", ShaLen) }

GitRemotes ==
    { [up |-> up, heads |-> h, tags |-> t] :
        up \in BOOLEAN,
        h \in [BranchNames -> {Absent, "k1"}],
        t \in [TagNames -> {Absent, "k1", "t1", "t2"}] }

GitInit ==
    /\ gitRef \in GitRefs
    /\ gitRemote \in GitRemotes
    /\ gitPc = "start"
    /\ gitListing = {}
    /\ gitOut = <<>>
    /\ gitErr = NoErr
    /\ gitCalls = 0
    /\ PinIdle /\ ErrIdle /\ DhiIdle /\ HardenIdle /\ HttpIdle /\ AuthIdle

\* a 40-hex ref is returned as it is
ReturnCommitId ==
    /\ gitPc = "start"
    /\ Is40Hex(gitRef)
    /\ gitOut' = gitRef
    /\ gitPc' = "done"
    /\ UNCHANGED <<gitRef, gitRemote, gitListing, gitErr, gitCalls, pinVars, errVars, dhiVars, hardenVars, httpVars, authVars>>

\* any other ref: list the remote
ListRemote ==
    /\ gitPc = "start"
    /\ ~Is40Hex(gitRef)
    /\ gitCalls' = gitCalls + 1
    /\ IF gitRemote.up
       THEN /\ gitListing' = LsRemote(gitRemote)
            /\ gitPc' = "listed"
            /\ UNCHANGED gitErr
       ELSE /\ gitErr' = Errorf("git ls-remote", gitRef, "network")
            /\ gitPc' = "done"
            /\ UNCHANGED gitListing
    /\ UNCHANGED <<gitRef, gitRemote, gitOut, pinVars, errVars, dhiVars, hardenVars, httpVars, authVars>>

\* match the ref in the listing
ResolveListed ==
    /\ gitPc = "listed"
    /\ IF MatchRef(gitListing, gitRef) # {}
       THEN /\ gitOut' = CHOOSE id \in MatchRef(gitListing, gitRef) : TRUE
            /\ UNCHANGED gitErr
       ELSE /\ gitErr' = Errorf("ref not found", gitRef, "no branch or tag")
            /\ UNCHANGED gitOut
    /\ gitPc' = "done"
    /\ UNCHANGED <<gitRef, gitRemote, gitListing, gitCalls, pinVars, errVars, dhiVars, hardenVars, httpVars, authVars>>

GitNext ==
    \/ ReturnCommitId
    \/ ListRemote
    \/ ResolveListed

----------------------------------------------------------------------------
(* registry.Client.CheckAuth: opening <registry>/auth-check:test and       *)
(* classifying the failure by its text.                                    *)

\* CheckAuth looking for an authentication marker before a not-found marker
classifyProbe_AuthFirst(host, err) ==
    IF err = NilErr
    THEN NoErr
    ELSE IF \/ Contains(ToLower(err.msg), <<"u", "n", "a", "u", "t", "h", "o", "r", "i", "z", "e", "d">>)
            \/ Contains(ToLower(err.msg), <<"a", "u", "t", "h", "e", "n", "t", "i", "c", "a", "t", "i", "o", "n", " ", "r", "e", "q", "u", "i", "r", "e", "d">>)
            \/ Contains(ToLower(err.msg), <<"d", "e", "n", "i", "e", "d">>)
            \/ Contains(ToLower(err.msg), <<"4", "0", "1">>)
            \/ Contains(ToLower(err.msg), <<"4", "0", "3">>)
    THEN Errorf("authentication failed for", host, "run 'docker login' first")
    ELSE IF \/ Contains(ToLower(err.msg), <<"4", "0", "4">>)
            \/ Contains(ToLower(err.msg), <<"n", "o", "t", " ", "f", "o", "u", "n", "d">>)
            \/ Contains(ToLower(err.msg), <<"m", "a", "n", "i", "f", "e", "s", "t", " ", "u", "n", "k", "n", "o", "w", "n">>)
            \/ Contains(ToLower(err.msg), <<"n", "a", "m", "e", " ", "u", "n", "k", "n", "o", "w", "n">>)
            \/ Contains(ToLower(err.msg), <<"u", "n", "k", "n", "o", "w", "n", " ", "n", "a", "m", "e">>)
    THEN NoErr
    ELSE Errorf("failed to connect to", host, err.msg)

\* CheckAuth once imgRef.NewImageSource has returned err
classifyProbe(host, err) ==
    IF err = NilErr
    THEN NoErr
    ELSE IF \/ Contains(ToLower(err.msg), <<"4", "0", "4">>)
            \/ Contains(ToLower(err.msg), <<"n", "o", "t", " ", "f", "o", "u", "n", "d">>)
            \/ Contains(ToLower(err.msg), <<"m", "a", "n", "i", "f", "e", "s", "t", " ", "u", "n", "k", "n", "o", "w", "n">>)
            \/ Contains(ToLower(err.msg), <<"n", "a", "m", "e", " ", "u", "n", "k", "n", "o", "w", "n">>)
            \/ Contains(ToLower(err.msg), <<"u", "n", "k", "n", "o", "w", "n", " ", "n", "a", "m", "e">>)
    THEN NoErr
    ELSE IF \/ Contains(ToLower(err.msg), <<"u", "n", "a", "u", "t", "h", "o", "r", "i", "z", "e", "d">>)
            \/ Contains(ToLower(err.msg), <<"a", "u", "t", "h", "e", "n", "t", "i", "c", "a", "t", "i", "o", "n", " ", "r", "e", "q", "u", "i", "r", "e", "d">>)
            \/ Contains(ToLower(err.msg), <<"d", "e", "n", "i", "e", "d">>)
            \/ Contains(ToLower(err.msg), <<"4", "0", "1">>)
            \/ Contains(ToLower(err.msg), <<"4", "0", "3">>)
    THEN Errorf("authentication failed for", host, "run 'docker login' first")
    ELSE Errorf("failed to connect to", host, err.msg)

\* CheckAuth once the probe reference has been parsed
probeParsed(host, parsed, outcome) ==
    IF parsed.err # NoRefErr
    THEN Errorf("invalid registry reference", host, parsed.err)
    ELSE classifyProbe(host, outcome)

\* Client.CheckAuth, outcome being what opening the probe returns
CheckAuth(host, outcome) ==
    probeParsed(host,
                ParseNormalizedNamed(host \o <<"/", "auth-check", ":", "test">>),
                outcome)

\* registries probed, and the failures of the probe: one marker, or an
\* authentication marker together with a not-found marker
AuthRegistries == { <<"docker.io">>, <<"ghcr.io">>, <<"localhost", ":", "5000">> }

MixedCores ==
    { <<"d", "e", "n", "i", "e", "d", ":", " ", "r", "e", "p", "o", "s", "i", "t", "o", "r", "y", " ", "n", "o", "t", " ", "f", "o", "u", "n", "d">>,
      <<"u", "n", "a", "u", "t", "h", "o", "r", "i", "z", "e", "d", ":", " ", "m", "a", "n", "i", "f", "e", "s", "t", " ", "u", "n", "k", "n", "o", "w", "n">>,
      <<"S", "t", "a", "t", "u", "s", "C", "o", "d", "e", ":", " ", "4", "0", "1", ",", " ", "n", "a", "m", "e", " ", "u", "n", "k", "n", "o", "w", "n">>,
      <<"4", "0", "4", " ", "p", "a", "g", "e", ":", " ", "a", "c", "c", "e", "s", "s", " ", "d", "e", "n", "i", "e", "d">> }

AuthErrTexts ==
    { p \o c : p \in { <<>>, <<"E", "r", "r", "o", "r", ":", " ">> }, c \in ErrCores \cup MixedCores }

AuthInit ==
    /\ authRegistry \in AuthRegistries
    /\ authOutcome \in {NilErr} \cup { Err(t) : t \in AuthErrTexts }
    /\ authRet = NoErr
    /\ authPc = "call"
    /\ PinIdle /\ ErrIdle /\ DhiIdle /\ HardenIdle /\ HttpIdle /\ GitIdle

\* one call of CheckAuth(ctx, authRegistry)
CallCheckAuth ==
    /\ authPc = "call"
    /\ authRet' = CheckAuth(authRegistry, authOutcome)
    /\ authPc' = "done"
    /\ UNCHANGED <<authRegistry, authOutcome, pinVars, errVars, dhiVars, hardenVars, httpVars, gitVars>>

AuthNext == CallCheckAuth

----------------------------------------------------------------------------
(* Specifications.                                                         *)

Spec == PinInit /\ [][PinNext]_vars

SpecSkip == SkipInit /\ [][PinNext]_vars

SpecHarden == HardenInit /\ [][HardenNext]_vars

SpecHTTP == HttpInit /\ [][HttpNext]_vars

SpecGit == GitInit /\ [][GitNext]_vars

SpecAuth == AuthInit /\ [][AuthNext]_vars

SpecErr == ErrInit /\ [][ErrNext]_vars

SpecDHI == DhiInit /\ [][DhiNext]_vars

----------------------------------------------------------------------------
(* Claims about pin.GeneratePolicy and pin.WritePolicy (under Spec, and    *)
(* under SpecSkip for the skipped references).                              *)

\* the references of all the inputs, in the order they are traversed
RECURSIVE InputRefs(_, _)
InputRefs(fs, i) ==
    IF i > Len(fs) THEN <<>>
    ELSE ParseFile(fs[i]).refs \o InputRefs(fs, i + 1)

\* how many times an Original occurs among references
Occurrences(rfs, original) ==
    Cardinality({ j \in 1..Len(rfs) : rfs[j].Original = original })

\* how many rules select an Original
RulesFor(rs, original) ==
    Cardinality({ j \in 1..Len(rs) : rs[j].selector = Scheme \o original })

Succeeded == pc \in {"done", "written"} /\ ret.err = NoErr
Returned == pc \in {"done", "written"}

\* every file can be read and the registry has a manifest for every
\* reference that is not digest-qualified
AllResolve ==
    /\ \A i \in 1..Len(dockerfiles) : dockerfiles[i].readable
    /\ \A j \in 1..Len(InputRefs(dockerfiles, 1)) :
          LET ref == InputRefs(dockerfiles, 1)[j].Ref
          IN ~IsDigested(ref) => RegistryLookup(GetDigestKey(ref)) \in Manifests

\* the returned error is the wrapped error of a call that failed
ReturnedErrorIsOfFailedCall ==
    \/ /\ ret.err.op = "failed to parse"
       /\ ~dockerfiles[ret.err.arg[1]].readable
       /\ ret.err.cause = ParseFile(dockerfiles[ret.err.arg[1]]).err
    \/ /\ ret.err.op = "failed to get digest for"
       /\ \E j \in 1..Len(InputRefs(dockerfiles, 1)) :
             LET r == InputRefs(dockerfiles, 1)[j]
             IN /\ r.Original = ret.err.arg
                /\ RegistryLookup(GetDigestKey(r.Ref)) \in Failures
                /\ ret.err.cause = GetDigest(r.Ref).err

\* C1: if a parse or resolver call fails, GeneratePolicy returns that wrapped
\* error with a nil policy (the rules appended so far are not returned); a
\* non-nil policy is returned only when every file parsed and every
\* non-skipped reference resolved.
C1_FailFast ==
    Returned =>
        /\ ret.err # NoErr => ret.pol = NilPolicy /\ ReturnedErrorIsOfFailedCall
        /\ ret.pol # NilPolicy => ret.err = NoErr /\ AllResolve
        /\ ~AllResolve => ret.err # NoErr

\* a run failed after rules had been appended, and returned no policy
C1_Witness ==
    /\ pc = "done"
    /\ ret.err # NoErr
    /\ Len(rules) >= 1
    /\ ret.pol = NilPolicy

\* C2 as stated: for any Original appearing more than once across the inputs,
\* exactly one rule is emitted in the returned document.
C2_ExactlyOneRuleAsClaimed ==
    Succeeded =>
        \A j \in 1..Len(InputRefs(dockerfiles, 1)) :
            LET o == InputRefs(dockerfiles, 1)[j].Original
            IN Occurrences(InputRefs(dockerfiles, 1), o) > 1
                  => RulesFor(ret.pol.rules, o) = 1

\* C2, amended: for any Original appearing more than once, exactly one rule is
\* emitted when the reference is not digest-qualified, and none when it is;
\* no two rules ever share the same Original.
C2_Uniqueness ==
    /\ \A a, b \in 1..Len(rules) : a # b => rules[a].selector # rules[b].selector
    /\ Succeeded =>
          \A j \in 1..Len(InputRefs(dockerfiles, 1)) :
              LET r == InputRefs(dockerfiles, 1)[j]
              IN Occurrences(InputRefs(dockerfiles, 1), r.Original) > 1
                    => RulesFor(ret.pol.rules, r.Original)
                          = (IF IsDigested(r.Ref) THEN 0 ELSE 1)

\* an Original that occurs twice was pinned by one rule
C2_Witness ==
    /\ Succeeded
    /\ \E j \in 1..Len(InputRefs(dockerfiles, 1)) :
          LET r == InputRefs(dockerfiles, 1)[j]
          IN /\ Occurrences(InputRefs(dockerfiles, 1), r.Original) > 1
             /\ ~IsDigested(r.Ref)
             /\ RulesFor(ret.pol.rules, r.Original) = 1

\* the Originals that are not digest-qualified, each at its first occurrence
RECURSIVE FirstSeen(_, _, _)
FirstSeen(rfs, j, before) ==
    IF j > Len(rfs) THEN <<>>
    ELSE IF rfs[j].Original \in before \/ IsDigested(rfs[j].Ref)
         THEN FirstSeen(rfs, j + 1, before \cup {rfs[j].Original})
         ELSE <<rfs[j].Original>> \o FirstSeen(rfs, j + 1, before \cup {rfs[j].Original})

\* C3: in every returned document the order of the rules is the first-seen
\* order of their Originals, inputs in the supplied order and references in
\* extraction order.
C3_FirstSeenOrder ==
    Succeeded =>
        LET expected == FirstSeen(InputRefs(dockerfiles, 1), 1, {})
        IN /\ Len(ret.pol.rules) = Len(expected)
           /\ \A k \in 1..Len(expected) :
                 ret.pol.rules[k].selector = Scheme \o expected[k]

\* two Originals of two files were pinned, the later one seen first elsewhere
C3_Witness ==
    /\ Succeeded
    /\ Len(dockerfiles) = 2
    /\ Len(ret.pol.rules) = 2
    /\ Len(InputRefs(dockerfiles, 1)) = 3
    /\ ret.pol.rules[1].selector = Scheme \o <<"alpine">>

\* the references of the files GeneratePolicy gets to: those before the
\* first file that cannot be read
RECURSIVE C12_Traversed(_, _)
C12_Traversed(fs, i) ==
    IF i > Len(fs) \/ ~fs[i].readable THEN <<>>
    ELSE ParseFile(fs[i]).refs \o C12_Traversed(fs, i + 1)

\* the reference the registry is asked for when an Original is resolved
C12_KeyOf(original) == GetDigestKey(ParseNormalizedNamed(original).ref)

\* the Originals resolved one after the other, up to the first that fails
RECURSIVE C12_UpToFailure(_, _)
C12_UpToFailure(os, k) ==
    IF k > Len(os) THEN <<>>
    ELSE IF RegistryLookup(C12_KeyOf(os[k])) \in Failures
         THEN << C12_KeyOf(os[k]) >>
         ELSE << C12_KeyOf(os[k]) >> \o C12_UpToFailure(os, k + 1)

\* C12: during one run the resolver is called at most once per distinct
\* Original, never for a duplicate occurrence or a digest-qualified
\* reference, never again for a reference that failed, and not at all after
\* the first fatal error.
C12_AtMostOnce ==
    /\ \A j \in 1..Len(InputRefs(dockerfiles, 1)) :
          LET r == InputRefs(dockerfiles, 1)[j]
          IN Cardinality({ k \in 1..Len(calls) : calls[k] = GetDigestKey(r.Ref) })
                <= (IF IsDigested(r.Ref) THEN 0 ELSE 1)
    /\ \A k \in 1..Len(calls) :
          RegistryLookup(calls[k]) \in Failures => k = Len(calls)
    /\ Returned =>
          calls = C12_UpToFailure(FirstSeen(C12_Traversed(dockerfiles, 1), 1, {}), 1)
    /\ Returned /\ ret.err = NoErr =>
          Len(calls) = Cardinality({ InputRefs(dockerfiles, 1)[j].Original :
                                       j \in { i \in 1..Len(InputRefs(dockerfiles, 1)) :
                                                 ~IsDigested(InputRefs(dockerfiles, 1)[i].Ref) } })

\* an Original written twice was resolved once, and the run ended at the
\* failed resolution of the next one
C12_Witness ==
    /\ pc = "done"
    /\ ret.err.op = "failed to get digest for"
    /\ Len(InputRefs(dockerfiles, 1)) = 3
    /\ InputRefs(dockerfiles, 1)[1].Original = InputRefs(dockerfiles, 1)[2].Original
    /\ Len(calls) = 2
    /\ RegistryLookup(calls[2]) \in Failures

\* the skip classes of C4, read off the instructions of the file
C4_IsSkipped(instrs, i) ==
    \/ instrs[i].image = <<"scratch">>
    \/ /\ Len(instrs[i].image) = 1
       /\ \E j \in 1..(i - 1) : instrs[j].cmd = "FROM" /\ instrs[j].as = instrs[i].image[1]
    \/ Len(instrs[i].image) = 1 /\ instrs[i].image[1] \in {"0", "1"}
    \/ \E k \in 1..Len(instrs[i].image) : instrs[i].image[k] \in {"${BASE}", "$TAG"}
    \/ \E k \in 1..Len(instrs[i].image) : instrs[i].image[k] = "@"

\* the Originals of the occurrences that are in no skip class
C4_Resolvable ==
    UNION { { dockerfiles[f].instrs[i].image :
                i \in { n \in 1..Len(dockerfiles[f].instrs) :
                          ~C4_IsSkipped(dockerfiles[f].instrs, n) } }
            : f \in 1..Len(dockerfiles) }

\* C4: scratch, a reference to a previously declared stage, a numeric stage
\* index, a reference with an unexpanded variable and a digest-qualified
\* reference each yield no rule, no resolver call and no error.
C4_SkipCorrectness ==
    /\ \A k \in 1..Len(calls) :
          \E o \in C4_Resolvable : calls[k] = GetDigestKey(ParseNormalizedNamed(o).ref)
    /\ \A k \in 1..Len(rules) :
          \E o \in C4_Resolvable : rules[k].selector = Scheme \o o
    /\ Returned /\ ret.err # NoErr =>
          \/ ret.err.op = "failed to parse" /\ ~dockerfiles[ret.err.arg[1]].readable
          \/ ret.err.op = "failed to get digest for" /\ ret.err.arg \in C4_Resolvable

\* a file of a named stage, a reference to it and a digest-qualified
\* reference gave one rule and one resolver call
C4_Witness ==
    /\ Succeeded
    /\ dockerfiles[1].instrs = << From(<<"alpine", ":", "3.18">>, "build"),
                                  From(<<"build">>, ""),
                                  From(<<"alpine", "@", "sha256:d0">>, "") >>
    /\ Len(ret.pol.rules) = 1
    /\ Len(calls) = 1

\* C9: a second run over the same inputs and the same upstream state writes
\* the same document, line for line, indented by two spaces per level.
C9_Idempotent ==
    /\ run = 2 /\ pc = "done" => ret.err = NoErr
    /\ run = 2 /\ pc = "written" => out = doc1
    /\ \A k \in 1..Len(out) : out[k].indent \in {0, 2, 4, 6, 8}

\* the second run wrote a document of two rules
C9_Witness ==
    /\ run = 2
    /\ pc = "written"
    /\ Len(ret.pol.rules) = 2
    /\ out = doc1

----------------------------------------------------------------------------
(* Claims about registry.IsNotFoundOrAuthError (under SpecErr).            *)

C6_ClaimedMarkers ==
    { <<"4", "0", "1">>, <<"4", "0", "3">>, <<"4", "0", "4">>, <<"m", "a", "n", "i", "f", "e", "s", "t", " ", "u", "n", "k", "n", "o", "w", "n">>, <<"n", "a", "m", "e", " ", "u", "n", "k", "n", "o", "w", "n">>,
      <<"d", "e", "n", "i", "e", "d">>, <<"u", "n", "a", "u", "t", "h", "o", "r", "i", "z", "e", "d">>, <<"d", "o", "e", "s", " ", "n", "o", "t", " ", "e", "x", "i", "s", "t">> }

C6_CodeMarkers ==
    { <<"4", "0", "1">>, <<"4", "0", "3">>, <<"4", "0", "4">>, <<"m", "a", "n", "i", "f", "e", "s", "t", " ", "u", "n", "k", "n", "o", "w", "n">>, <<"n", "o", "t", " ", "f", "o", "u", "n", "d">>,
      <<"u", "n", "a", "u", "t", "h", "o", "r", "i", "z", "e", "d">>, <<"a", "u", "t", "h", "e", "n", "t", "i", "c", "a", "t", "i", "o", "n", " ", "r", "e", "q", "u", "i", "r", "e", "d">>, <<"d", "e", "n", "i", "e", "d">>,
      <<"d", "o", "e", "s", " ", "n", "o", "t", " ", "e", "x", "i", "s", "t">> }

C6_Matches(err, markers) ==
    ~err.isNil /\ \E m \in markers : Contains(ToLower(err.msg), m)

\* C6 as stated: IsNotFoundOrAuthError(err) is true exactly when err is
\* non-nil and its text contains, case-insensitively, 401, 403, 404,
\* "manifest unknown", "name unknown", "denied", "unauthorized" or
\* "does not exist".
C6_TriggerSetAsClaimed ==
    errPc = "done" => (errOut = C6_Matches(errIn, C6_ClaimedMarkers))

\* C6, amended: IsNotFoundOrAuthError(err) is true exactly when err is
\* non-nil and its text contains, case-insensitively, 401, 403, 404,
\* "manifest unknown", "not found", "unauthorized", "authentication
\* required", "denied" or "does not exist"; it is false for nil and for every
\* other error ("name unknown" alone included).
C6_TriggerSet ==
    errPc = "done" => (errOut = C6_Matches(errIn, C6_CodeMarkers))

\* a mixed-case "Not Found" error was classified as a fallback trigger
C6_Witness ==
    /\ errPc = "done"
    /\ errOut = TRUE
    /\ Contains(errIn.msg, <<"N", "o", "t", " ", "F", "o", "u", "n", "d">>)
    /\ ~C6_Matches(errIn, C6_ClaimedMarkers)

----------------------------------------------------------------------------
(* Claims about the hardened-mirror fallback (under SpecHarden).           *)

\* the attempt on dhi.io ended in a not-found or unauthorized outcome
C5_DhiNotFoundOrUnauthorized ==
    /\ hPreferDHI
    /\ CanMapToDHI(hRef.Ref)
    /\ hDhiAnswer.stage # "served"
    /\ C6_Matches(Err(hDhiAnswer.cause), C6_CodeMarkers)

----------------------------------------------------------------------------
(* Claims about the HTTP checksum strategy chain (under SpecHTTP).         *)

\* the source behind the URL and the asset listing, as the server holds them
C10_Source == ms.files[url.path]
C10_Listing == ms.files[url.api]

\* when each strategy matches: a raw-content host whose HEAD answer carries the
\* sha256 of the content as a bare ETag (the mock server does, an origin with
\* opaque validators does not); a release host whose listing publishes a
\* digest; an object store that sends its checksum header
C10_ETagMatches ==
    url.host = "raw" /\ C10_Source.present /\ ms.kind = "mock"
C10_ReleaseMatches ==
    url.host = "release" /\ C10_Listing.present /\ C10_Listing.content = "assets+digest"
C10_ObjectStoreMatches ==
    url.host = "s3" /\ C10_Source.present
        /\ C10_Source.headers["x-amz-checksum-sha256"] # <<>>

C10_FirstMatch ==
    IF C10_ETagMatches THEN "etag"
    ELSE IF C10_ReleaseMatches THEN "release"
    ELSE IF C10_ObjectStoreMatches THEN "s3"
    ELSE "fallback"

C10_ChecksumOf(by) ==
    CASE by = "release" -> <<"sha256:", "hex1">>
      [] by = "s3" ->
            <<"sha256:", Base64ToHex(C10_Source.headers["x-amz-checksum-sha256"][1])>>
      [] OTHER -> <<"sha256:", Sha256Hex(C10_Source.content)>>

C10_BodyFetched ==
    \E i \in 1..Len(ms.requests) : ms.requests[i] = <<"GET", " ", url.path>>

\* C10: the strategies are tried in the order ETag, release API, object-store
\* header, full download, and the first that matches decides the checksum; a
\* raw-content host answering HEAD with a bare 64-hex ETag yields that value as
\* the checksum and no GET is ever issued; the body is fetched only when no
\* earlier strategy matched.
C10_StrategyChain ==
    /\ httpPc = "release" => ~C10_ETagMatches
    /\ httpPc = "s3" => ~C10_ETagMatches /\ ~C10_ReleaseMatches
    /\ httpPc = "fallback" => C10_FirstMatch = "fallback"
    /\ httpPc \in {"vary", "done"} /\ httpErr = NoErr =>
          /\ decidedBy = C10_FirstMatch
          /\ checksum = C10_ChecksumOf(decidedBy)
    /\ C10_ETagMatches => ~HasRequest(ms, <<"GET">>)
    /\ C10_BodyFetched => C10_FirstMatch = "fallback"
    /\ httpErr # NoErr => C10_FirstMatch = "fallback" /\ decidedBy = "none"

\* a file on the mock server, taken as a raw-content host, got its checksum
\* from the ETag: two HEAD requests were recorded and no GET
C10_Witness ==
    /\ httpPc = "done"
    /\ url.host = "raw"
    /\ ms.kind = "mock"
    /\ decidedBy = "etag"
    /\ checksum = AddFile(ms.files, url.path, "c1").checksum
    /\ C10_Source.content = "c1"
    /\ ms.requests = << <<"HEAD", " ", "/f">>, <<"HEAD", " ", "/f">> >>
    /\ ~HasRequest(ms, <<"GET">>)

----------------------------------------------------------------------------
(* Claims about the Git resolver (under SpecGit).                          *)

\* the remote has a branch, or a tag, of exactly the name asked for
C11_Branch == gitRef \in BranchNames /\ gitRemote.heads[gitRef] # Absent
C11_Tag == gitRef \in TagNames /\ gitRemote.tags[gitRef] # Absent

\* the commit the claim promises, <<>> when neither matches
C11_Expected ==
    IF C11_Branch THEN ObjectId(gitRemote.heads[gitRef])
    ELSE IF C11_Tag THEN ObjectId(Peel(gitRemote.tags[gitRef]))
    ELSE <<>>

\* C11: a 40-hex ref is returned unchanged and the remote is never listed;
\* any other ref resolves to the exact branch of that name, else to the exact
\* tag of that name peeled to its commit (never the tag object's own id),
\* else the resolution fails; a result is always a full 40-hex commit id.
C11_GitResolve ==
    /\ Is40Hex(gitRef) => gitCalls = 0
    /\ gitPc = "done" /\ Is40Hex(gitRef) =>
          gitOut = gitRef /\ gitErr = NoErr
    /\ gitPc = "done" /\ ~Is40Hex(gitRef) /\ gitRemote.up =>
          /\ gitCalls = 1
          /\ gitOut = C11_Expected
          /\ (gitErr # NoErr) <=> (~C11_Branch /\ ~C11_Tag)
          /\ ~C11_Branch /\ C11_Tag /\ gitRemote.tags[gitRef] \in TagObjects =>
                gitOut # ObjectId(gitRemote.tags[gitRef])
    /\ gitOut # <<>> =>
          /\ Is40Hex(gitOut)
          /\ gitOut = gitRef \/ gitOut \in { ObjectId(c) : c \in Commits }

\* the tag v1, a tag of a tag, with no branch v1, resolved to its commit
C11_Witness ==
    /\ gitPc = "done"
    /\ gitRef = <<"v", "1">>
    /\ gitRemote.heads[gitRef] = Absent
    /\ gitRemote.tags[gitRef] = "t2"
    /\ gitOut = Repeat("b", ShaLen)
    /\ gitErr = NoErr

----------------------------------------------------------------------------
(* Claims about registry.Client.CheckAuth (under SpecAuth).                *)

C13_NotFoundMarkersAsClaimed ==
    { <<"4", "0", "4">>, <<"n", "o", "t", " ", "f", "o", "u", "n", "d">>, <<"m", "a", "n", "i", "f", "e", "s", "t", " ", "u", "n", "k", "n", "o", "w", "n">>, <<"n", "a", "m", "e", " ", "u", "n", "k", "n", "o", "w", "n">> }
C13_NotFoundMarkers ==
    C13_NotFoundMarkersAsClaimed \cup { <<"u", "n", "k", "n", "o", "w", "n", " ", "n", "a", "m", "e">> }
C13_AuthMarkers ==
    { <<"u", "n", "a", "u", "t", "h", "o", "r", "i", "z", "e", "d">>, <<"a", "u", "t", "h", "e", "n", "t", "i", "c", "a", "t", "i", "o", "n", " ", "r", "e", "q", "u", "i", "r", "e", "d">>, <<"d", "e", "n", "i", "e", "d">>, <<"4", "0", "1">>, <<"4", "0", "3">> }

C13_AuthFailed ==
    authRet.op = "authentication failed for" /\ authRet.arg = authRegistry
C13_FailedToConnect ==
    /\ authRet.op = "failed to connect to"
    /\ authRet.arg = authRegistry
    /\ authRet.cause = authOutcome.msg

\* C13 as stated: nil when the probe opens or fails only because the image
\* does not exist (404, not found, manifest unknown, name unknown); the
\* authentication error for every failure carrying an authentication marker,
\* whatever else its text contains; the connection error for every other one.
C13_ClassificationAsClaimed ==
    authPc = "done" =>
        IF authOutcome = NilErr THEN authRet.op = "nil"
        ELSE IF C6_Matches(authOutcome, C13_AuthMarkers) THEN C13_AuthFailed
        ELSE IF C6_Matches(authOutcome, C13_NotFoundMarkersAsClaimed) THEN authRet.op = "nil"
        ELSE C13_FailedToConnect

\* C13, amended: nil when the probe opens or its failure carries a not-found
\* marker (404, not found, manifest unknown, name unknown, unknown name),
\* whatever else the text contains; the authentication error for a failure
\* with an authentication marker and no not-found marker; the connection
\* error, wrapping the cause, for every other failure.
C13_Classification ==
    authPc = "done" =>
        IF authOutcome = NilErr THEN authRet.op = "nil"
        ELSE IF C6_Matches(authOutcome, C13_NotFoundMarkers) THEN authRet.op = "nil"
        ELSE IF C6_Matches(authOutcome, C13_AuthMarkers) THEN C13_AuthFailed
        ELSE C13_FailedToConnect

\* a failure saying both "denied" and "not found" was reported as success
C13_Witness ==
    /\ authPc = "done"
    /\ authOutcome # NilErr
    /\ Contains(authOutcome.msg, <<"d", "e", "n", "i", "e", "d">>)
    /\ Contains(authOutcome.msg, <<"n", "o", "t", " ", "f", "o", "u", "n", "d">>)
    /\ authRet.op = "nil"

----------------------------------------------------------------------------
(* Claims about dhi.CanMapToDHI and dhi.MapToDHI (under SpecDHI).          *)

\* eligibility as the specification defines it: on docker.io, a single name
\* component under library/, and not on dhi.io
C7_Eligible(ref) ==
    /\ ref.domain = <<"docker.io">>
    /\ Len(ref.path) = 3
    /\ ref.path[1] = "library"
    /\ ref.path[2] = "/"
    /\ ref.domain # <<"dhi.io">>

\* C7: CanMapToDHI(ref) is true if and only if ref is on docker.io, its path
\* is a single-segment name under library/ and it does not target dhi.io.
C7_EligibilityAsClaimed ==
    dhiPc \in {"checked", "mapped", "remapped"} => (canMapOut = C7_Eligible(refNamed))

\* C8: for every eligible reference MapToDHI returns the dhi.io reference with
\* the path minus library/ and the same tag (none when the input has none);
\* for every ineligible reference it returns ErrNotEligible and nil; the
\* returned reference is never eligible, so mapping it again fails.
C8_RewriteAsClaimed ==
    /\ dhiPc \in {"mapped", "remapped"} =>
          IF C7_Eligible(refNamed)
          THEN /\ mapOut.err = NoRefErr
               /\ mapOut.ref.domain = <<"dhi.io">>
               /\ refNamed.path = <<"library", "/">> \o mapOut.ref.path
               /\ mapOut.ref.tag = refNamed.tag
               /\ ~C7_Eligible(mapOut.ref)
          ELSE /\ mapOut.err = ErrNotEligible
               /\ mapOut.ref = NilRef
    /\ dhiPc = "remapped" =>
          /\ remapOut.err = ErrNotEligible
          /\ remapOut.ref = NilRef

====
